---- MODULE Spec2Model ----
(***************************************************************************)
(* Model of Projet_MapReduce/recherche.py: the PageRank map/reduce engine  *)
(* (initialize_page_ranks, map_page_rank, reduce_page_rank,                *)
(* calculate_page_rank) and the inverted-index search engine               *)
(* (create_inverted_index, search).                                        *)
(*                                                                         *)
(* Python floats are modelled as exact rationals [num, den] in lowest      *)
(* terms; the damping factor 0.85 is 17/20.  Rounding of IEEE doubles is   *)
(* outside the model.  Python dicts are functions; where the insertion     *)
(* order of a dict is observable (the results of search) the dict is a     *)
(* sequence of entries in insertion order.                                 *)
(***************************************************************************)
EXTENDS Integers, Sequences, FiniteSets, TLC

VARIABLES pc, pages, all_links, page_ranks, num_pages, iter,
          init_ranks, prev_ranks, divisors,
          page_contents, inverted_index, query, results

vars == <<pc, pages, all_links, page_ranks, num_pages, iter,
          init_ranks, prev_ranks, divisors,
          page_contents, inverted_index, query, results>>

rankVars == <<pages, all_links, page_ranks, num_pages, iter,
              init_ranks, prev_ranks, divisors>>

searchVars == <<page_contents, inverted_index, query, results>>

\* ------------------------------------------------------------------------
\* Bounds
\* ------------------------------------------------------------------------
MaxLinks == 2
MaxIter == 3
MaxQueryLen == 3

\* Page identifiers (file names / href strings), in the order the dict of
\* pages is iterated.
NodeOrder == <<"a.html", "b.html", "c.html">>
Nodes == {NodeOrder[i] : i \in 1..Len(NodeOrder)}

NodeIndex(n) == CHOOSE i \in 1..Len(NodeOrder) : NodeOrder[i] = n

\* The href lists of a page, up to MaxLinks links, duplicates included.  The
\* ranking depends on a list only through its multiset of targets, so one
\* list per multiset (the one in node order) is enumerated.
LinkLists ==
    {l \in UNION {[1..n -> Nodes] : n \in 0..MaxLinks} :
        \A i \in 1..(Len(l) - 1) : NodeIndex(l[i]) <= NodeIndex(l[i + 1])}
Graphs == UNION {[D -> LinkLists] : D \in SUBSET Nodes}

\* Graphs used when calculate_page_rank is called with an arbitrary all_links
DirectDocs == {"a.html", "b.html"}
DirectGraphs == UNION {[D -> LinkLists] : D \in SUBSET DirectDocs}

\* Characters of page texts and queries: "e'" stands for e-acute, "E'" for
\* E-acute, " " for whitespace.  A string is a sequence of characters.
QueryChars == {"a", "E'", " "}
Queries == UNION {[1..n -> QueryChars] : n \in 0..MaxQueryLen}
Contents == {<<>>, <<"a">>, <<"a", " ", "E'">>, <<"A", " ", "a", " ", "e'">>}
RankValues == {[num |-> 3, den |-> 10], [num |-> 3, den |-> 5]}
RankTables == UNION {[D -> RankValues] : D \in SUBSET Nodes}

\* ------------------------------------------------------------------------
\* Exact rational arithmetic standing for Python float arithmetic
\* ------------------------------------------------------------------------
RECURSIVE GCD(_, _)
GCD(a, b) == IF b = 0 THEN a ELSE GCD(b, a % b)

Abs(x) == IF x < 0 THEN 0 - x ELSE x

Frac(n, d) ==
    IF d = 0 THEN [num |-> n, den |-> 0]
    ELSE LET g == GCD(Abs(n), d) IN [num |-> n \div g, den |-> d \div g]

Zero == Frac(0, 1)
One == Frac(1, 1)

FAdd(x, y) ==
    LET l == (x.den \div GCD(x.den, y.den)) * y.den
    IN  Frac(x.num * (l \div x.den) + y.num * (l \div y.den), l)

FSub(x, y) == FAdd(x, [num |-> 0 - y.num, den |-> y.den])

FMul(x, y) ==
    LET g1 == GCD(Abs(x.num), y.den)
        g2 == GCD(Abs(y.num), x.den)
    IN  Frac((x.num \div g1) * (y.num \div g2), (x.den \div g2) * (y.den \div g1))

FDivInt(x, k) ==
    LET g == GCD(Abs(x.num), k)
    IN  IF k = 0 THEN [num |-> x.num, den |-> 0]
        ELSE Frac(x.num \div g, x.den * (k \div g))

FLess(x, y) == x.num * y.den < y.num * x.den

\* ------------------------------------------------------------------------
\* Dict helpers
\* ------------------------------------------------------------------------
EmptyDict == [k \in {} |-> Zero]

Put(f, k, v) == [x \in DOMAIN f \cup {k} |-> IF x = k THEN v ELSE f[x]]

\* defaultdict(float)[k] / dict.get(k, 0)
Get(f, k) == IF k \in DOMAIN f THEN f[k] ELSE Zero

Range(s) == {s[i] : i \in DOMAIN s}

\* pages.items() / pages.values(): the documents in iteration order
PageSeq(pgs) == SelectSeq(NodeOrder, LAMBDA p : p \in DOMAIN pgs)

\* ------------------------------------------------------------------------
\* read_html_files: all_links is the set of every href of every page
\* ------------------------------------------------------------------------
LinksOf(pgs) == UNION {Range(pgs[p]) : p \in DOMAIN pgs}

\* ------------------------------------------------------------------------
\* initialize_page_ranks
\* ------------------------------------------------------------------------
InitNumPagesNoFloor(al) == Cardinality(al)

InitNumPages(al) == IF al # {} THEN Cardinality(al) ELSE 1

RECURSIVE InitAddLinks(_, _, _)
InitAddLinks(ranks, links, n) ==
    IF links = <<>> THEN ranks
    ELSE InitAddLinks(IF Head(links) \notin DOMAIN ranks
                         THEN Put(ranks, Head(links), FDivInt(One, n))
                         ELSE ranks,
                      Tail(links), n)

RECURSIVE InitAddPages(_, _, _, _)
InitAddPages(ranks, order, pgs, n) ==
    IF order = <<>> THEN ranks
    ELSE InitAddPages(InitAddLinks(ranks, pgs[Head(order)], n), Tail(order), pgs, n)

initialize_page_ranks_docs_only(pgs, al) ==
    [page \in al \cap DOMAIN pgs |-> FDivInt(One, InitNumPages(al))]

initialize_page_ranks(pgs, al) ==
    LET n == InitNumPages(al)
    IN  InitAddPages([page \in al |-> FDivInt(One, n)], PageSeq(pgs), pgs, n)

\* The divisors of the divisions initialize_page_ranks executes: line 31
\* divides once per element of all_links, line 35 once per link that has no
\* entry yet.
InitDivisors(pgs, al) ==
    (IF al # {} THEN {InitNumPages(al)} ELSE {})
    \cup (IF LinksOf(pgs) \subseteq al THEN {} ELSE {InitNumPages(al)})

\* ------------------------------------------------------------------------
\* map_page_rank
\* ------------------------------------------------------------------------
ShareUndivided(rank, num_links) == rank

Share(rank, num_links) == FDivInt(rank, num_links)

RECURSIVE MapLinks(_, _, _)
MapLinks(contributions, links, share) ==
    IF links = <<>> THEN contributions
    ELSE MapLinks(Put(contributions, Head(links),
                      FAdd(Get(contributions, Head(links)), share)),
                  Tail(links), share)

RECURSIVE MapPages(_, _, _, _)
MapPages(contributions, order, pgs, ranks) ==
    IF order = <<>> THEN contributions
    ELSE LET page == Head(order)
             links == pgs[page]
             num_links == Len(links)
         IN  MapPages(IF num_links > 0 /\ page \in DOMAIN ranks
                         THEN MapLinks(contributions, links,
                                       Share(ranks[page], num_links))
                         ELSE contributions,
                      Tail(order), pgs, ranks)

map_page_rank(pgs, ranks) == MapPages(EmptyDict, PageSeq(pgs), pgs, ranks)

\* The divisors of line 45: num_links of every page that passes the guard
MapDivisors(pgs, ranks) ==
    {Len(pgs[p]) : p \in {q \in DOMAIN pgs : Len(pgs[q]) > 0 /\ q \in DOMAIN ranks}}

\* ------------------------------------------------------------------------
\* reduce_page_rank
\* ------------------------------------------------------------------------
damping_factor == Frac(17, 20)

reduce_page_rank_by_contributions(contributions, n) ==
    [page \in DOMAIN contributions |->
        FAdd(FDivInt(FSub(One, damping_factor), Cardinality(DOMAIN contributions)),
             FMul(damping_factor, contributions[page]))]

reduce_page_rank(contributions, n) ==
    [page \in DOMAIN contributions |->
        FAdd(FDivInt(FSub(One, damping_factor), n),
             FMul(damping_factor, contributions[page]))]

\* The divisor of line 49, executed once per key of contributions
ReduceDivisors(contributions, n) ==
    IF DOMAIN contributions # {} THEN {n} ELSE {}

\* ------------------------------------------------------------------------
\* The ranking run: read_html_files or a direct call supplies (pages,
\* all_links); calculate_page_rank initializes and iterates.
\* ------------------------------------------------------------------------
Init ==
    /\ pc = "start"
    /\ pages = EmptyDict
    /\ all_links = {}
    /\ page_ranks = EmptyDict
    /\ num_pages = 0
    /\ iter = 0
    /\ init_ranks = EmptyDict
    /\ prev_ranks = EmptyDict
    /\ divisors = {}
    /\ page_contents = EmptyDict
    /\ inverted_index = EmptyDict
    /\ query = <<>>
    /\ results = <<>>

\* lines 91, 101: the script ranks what read_html_files returns
ReadHtmlFiles ==
    /\ pc = "start"
    /\ \E g \in Graphs :
          /\ pages' = g
          /\ all_links' = LinksOf(g)
    /\ pc' = "call"
    /\ UNCHANGED <<page_ranks, num_pages, iter, init_ranks, prev_ranks, divisors>>
    /\ UNCHANGED searchVars

\* calculate_page_rank(pages, all_links) called with any set of links
CallCalculatePageRank ==
    /\ pc = "start"
    /\ \E g \in DirectGraphs, al \in SUBSET Nodes :
          /\ pages' = g
          /\ all_links' = al
    /\ pc' = "call"
    /\ UNCHANGED <<page_ranks, num_pages, iter, init_ranks, prev_ranks, divisors>>
    /\ UNCHANGED searchVars

\* lines 56-57
Initialize ==
    /\ pc = "call"
    /\ LET d == InitDivisors(pages, all_links)
           r == initialize_page_ranks(pages, all_links)
       IN  /\ divisors' = divisors \cup d
           /\ IF 0 \in d
                 THEN /\ pc' = "error"
                      /\ UNCHANGED <<page_ranks, num_pages, init_ranks>>
                 ELSE /\ pc' = "ranked"
                      /\ page_ranks' = r
                      /\ init_ranks' = r
                      /\ num_pages' = Cardinality(DOMAIN r)
    /\ UNCHANGED <<pages, all_links, iter, prev_ranks>>
    /\ UNCHANGED searchVars

\* lines 58-60: one pass of the loop body
Iterate ==
    /\ pc = "ranked"
    /\ iter < MaxIter
    /\ LET contributions == map_page_rank(pages, page_ranks)
           d == MapDivisors(pages, page_ranks)
                  \cup ReduceDivisors(contributions, num_pages)
       IN  /\ divisors' = divisors \cup d
           /\ IF 0 \in d
                 THEN /\ pc' = "error"
                      /\ UNCHANGED <<page_ranks, prev_ranks, iter>>
                 ELSE /\ pc' = "ranked"
                      /\ page_ranks' = reduce_page_rank(contributions, num_pages)
                      /\ prev_ranks' = page_ranks
                      /\ iter' = iter + 1
    /\ UNCHANGED <<pages, all_links, num_pages, init_ranks>>
    /\ UNCHANGED searchVars

\* ------------------------------------------------------------------------
\* Text normalisation: str.lower, unidecode, str.split
\* ------------------------------------------------------------------------
lower(c) == CASE c = "A" -> "a"
              [] c = "E'" -> "e'"
              [] OTHER -> c

unidecode_char(c) == CASE c = "e'" -> "e"
                       [] c = "E'" -> "E"
                       [] OTHER -> c

\* unidecode(word.lower())
normalize(word) == [i \in 1..Len(word) |-> unidecode_char(lower(word[i]))]

RECURSIVE SplitFrom(_, _, _)
SplitFrom(s, cur, acc) ==
    IF s = <<>> THEN (IF cur = <<>> THEN acc ELSE Append(acc, cur))
    ELSE IF Head(s) = " "
         THEN SplitFrom(Tail(s), <<>>, IF cur = <<>> THEN acc ELSE Append(acc, cur))
         ELSE SplitFrom(Tail(s), Append(cur, Head(s)), acc)

\* str.split(): maximal runs of non-whitespace characters
split(s) == SplitFrom(s, <<>>, <<>>)

\* ------------------------------------------------------------------------
\* create_inverted_index
\* ------------------------------------------------------------------------
EmptyIndex == [t \in {} |-> <<>>]

\* defaultdict(list).__getitem__: a missing key is inserted with []
IndexGetItem(index, term) ==
    IF term \in DOMAIN index THEN index ELSE Put(index, term, <<>>)

RECURSIVE IndexWords(_, _, _)
IndexWords(index, words, page) ==
    IF words = <<>> THEN index
    ELSE LET normalized_word == normalize(Head(words))
             ix == IndexGetItem(index, normalized_word)
         IN  IndexWords(Put(ix, normalized_word, Append(ix[normalized_word], page)),
                        Tail(words), page)

RECURSIVE IndexPages(_, _, _)
IndexPages(index, order, contents) ==
    IF order = <<>> THEN index
    ELSE IndexPages(IndexWords(index, split(contents[Head(order)]), Head(order)),
                    Tail(order), contents)

create_inverted_index(contents) == IndexPages(EmptyIndex, PageSeq(contents), contents)

\* ------------------------------------------------------------------------
\* search
\* ------------------------------------------------------------------------
\* line 75
QueryTerms(q) == LET ws == split(q) IN [i \in 1..Len(ws) |-> normalize(ws[i])]

AddResultOverwrite(res, page, r) ==
    IF \E i \in 1..Len(res) : res[i].page = page
       THEN [i \in 1..Len(res) |->
               IF res[i].page = page THEN [page |-> page, rank |-> r] ELSE res[i]]
       ELSE Append(res, [page |-> page, rank |-> FAdd(Zero, r)])

\* results[page] += r on a defaultdict(float): entries in insertion order
AddResult(res, page, r) ==
    IF \E i \in 1..Len(res) : res[i].page = page
       THEN [i \in 1..Len(res) |->
               IF res[i].page = page
                  THEN [page |-> page, rank |-> FAdd(res[i].rank, r)]
                  ELSE res[i]]
       ELSE Append(res, [page |-> page, rank |-> FAdd(Zero, r)])

\* lines 79-80
RECURSIVE AddPostings(_, _, _)
AddPostings(res, postings, ranks) ==
    IF postings = <<>> THEN res
    ELSE AddPostings(AddResult(res, Head(postings), Get(ranks, Head(postings))),
                     Tail(postings), ranks)

\* The index after line 78-79 for one term
TermAccessUnguarded(index, term) == IndexGetItem(index, term)

TermAccess(index, term) ==
    IF term \in DOMAIN index THEN IndexGetItem(index, term) ELSE index

\* lines 77-80: [res, index] after the loop over the terms
RECURSIVE SearchLoop(_, _, _, _)
SearchLoop(res, index, terms, ranks) ==
    IF terms = <<>> THEN [res |-> res, index |-> index]
    ELSE LET term == Head(terms)
             ix == TermAccess(index, term)
         IN  SearchLoop(IF term \in DOMAIN index
                           THEN AddPostings(res, ix[term], ranks)
                           ELSE res,
                        ix, Tail(terms), ranks)

InsertDescTiesFirst(sorted, e) ==
    LET k == Cardinality({i \in 1..Len(sorted) : FLess(e.rank, sorted[i].rank)})
    IN  SubSeq(sorted, 1, k) \o <<e>> \o SubSeq(sorted, k + 1, Len(sorted))

\* sorted(..., key=rank, reverse=True) is stable: an entry goes after every
\* entry already placed whose rank is not smaller
InsertDesc(sorted, e) ==
    LET k == Cardinality({i \in 1..Len(sorted) : ~FLess(sorted[i].rank, e.rank)})
    IN  SubSeq(sorted, 1, k) \o <<e>> \o SubSeq(sorted, k + 1, Len(sorted))

RECURSIVE SortDesc(_, _)
SortDesc(sorted, rest) ==
    IF rest = <<>> THEN sorted
    ELSE SortDesc(InsertDesc(sorted, Head(rest)), Tail(rest))

\* line 81
SortedPositive(res) ==
    SortDesc(<<>>, SelectSeq(res, LAMBDA e : FLess(Zero, e.rank)))

\* search applied to the list of normalized terms
SearchTerms(terms, index, ranks) ==
    LET out == SearchLoop(<<>>, index, terms, ranks)
    IN  [results |-> SortedPositive(out.res), index |-> out.index]

search(q, index, ranks) == SearchTerms(QueryTerms(q), index, ranks)

\* ------------------------------------------------------------------------
\* The search session: texts and a rank table, the index, then queries
\* ------------------------------------------------------------------------
LoadSearchInputs ==
    /\ pc = "start"
    /\ \E c \in [Nodes -> Contents], r \in RankTables :
          /\ page_contents' = c
          /\ page_ranks' = r
    /\ pc' = "loaded"
    /\ UNCHANGED <<pages, all_links, num_pages, iter, init_ranks, prev_ranks, divisors>>
    /\ UNCHANGED <<inverted_index, query, results>>

\* line 102
CreateInvertedIndex ==
    /\ pc = "loaded"
    /\ inverted_index' = create_inverted_index(page_contents)
    /\ pc' = "indexed"
    /\ UNCHANGED rankVars
    /\ UNCHANGED <<page_contents, query, results>>

\* line 134
Search ==
    /\ pc = "indexed"
    /\ \E q \in Queries :
          LET out == search(q, inverted_index, page_ranks)
          IN  /\ query' = q
              /\ results' = out.results
              /\ inverted_index' = out.index
    /\ pc' = "searched"
    /\ UNCHANGED rankVars
    /\ UNCHANGED page_contents

Next == LoadSearchInputs \/ CreateInvertedIndex \/ Search
        \/ ReadHtmlFiles \/ CallCalculatePageRank \/ Initialize \/ Iterate

Spec == Init /\ [][Next]_vars

\* ------------------------------------------------------------------------
\* Properties
\* ------------------------------------------------------------------------
Occ(seq, x) == Cardinality({i \in DOMAIN seq : seq[i] = x})

Contributors(pgs, R) == {p \in DOMAIN pgs : Len(pgs[p]) >= 1 /\ p \in DOMAIN R}

RECURSIVE ContributionSum(_, _, _, _)
ContributionSum(S, t, pgs, R) ==
    IF S = {} THEN Zero
    ELSE LET p == CHOOSE x \in S : TRUE
         IN  FAdd(FMul(Frac(Occ(pgs[p], t), 1), Frac(R[p].num, R[p].den * Len(pgs[p]))),
                  ContributionSum(S \ {p}, t, pgs, R))

ExpectedTable(pgs, R, N) ==
    LET src == Contributors(pgs, R)
        keys == {t \in Nodes : \E p \in src : t \in Range(pgs[p])}
    IN  [t \in keys |->
            FAdd(Frac(3, 20 * N), FMul(Frac(17, 20), ContributionSum(src, t, pgs, R)))]

LinksCovered == LinksOf(pages) \subseteq all_links

\* C1: one map/reduce iteration turns the table R into the table whose keys
\* are the link targets of the documents that have links and a score in R,
\* with score (1-d)/N + d * (sum over those documents and over every
\* occurrence of the target of R[p]/outDegree(p)), N the size of the initial
\* table.
C1_OneIteration ==
    (pc = "ranked" /\ iter >= 1) =>
        page_ranks = ExpectedTable(pages, prev_ranks, Cardinality(DOMAIN init_ranks))

C1_Witness ==
    /\ pc = "ranked" /\ iter = 2
    /\ \E p \in DOMAIN pages \cap DOMAIN prev_ranks :
          Len(pages[p]) = 2 /\ pages[p][1] = pages[p][2]
    /\ \E q \in DOMAIN pages \ DOMAIN prev_ranks : Len(pages[q]) >= 1
    /\ \E q \in DOMAIN pages : Len(pages[q]) = 0
    /\ page_ranks # EmptyDict

\* C2: every node that has a score in the initial table still has a score
\* after every iteration.
C2_NoNodeDropped ==
    pc = "ranked" => DOMAIN init_ranks \subseteq DOMAIN page_ranks

\* C3: with 0 iterations the table of the graph read_html_files returns has
\* exactly one entry per document identifier and per link target, each 1/N
\* with N the number of those nodes.
C3_UniformOverAllNodes ==
    (pc = "ranked" /\ iter = 0 /\ all_links = LinksOf(pages)) =>
        LET allNodes == DOMAIN pages \cup LinksOf(pages)
        IN  /\ DOMAIN page_ranks = allNodes
            /\ \A n \in allNodes : page_ranks[n] = Frac(1, Cardinality(allNodes))

\* C4: when all_links contains every link target of pages, every score of
\* the table is >= 0 and <= 1 after every iteration.
C4_ScoresInUnitInterval ==
    (pc = "ranked" /\ LinksCovered) =>
        \A n \in DOMAIN page_ranks :
            /\ page_ranks[n].den > 0
            /\ page_ranks[n].num >= 0
            /\ page_ranks[n].num <= page_ranks[n].den

C4_Witness ==
    /\ pc = "ranked" /\ LinksCovered /\ iter >= 2
    /\ \E n \in DOMAIN page_ranks : page_ranks[n] = One
    /\ Cardinality(DOMAIN pages) >= 2

RECURSIVE Distinct(_, _)
Distinct(seen, terms) ==
    IF terms = <<>> THEN seen
    ELSE Distinct(IF \E i \in 1..Len(seen) : seen[i] = Head(terms)
                     THEN seen ELSE Append(seen, Head(terms)),
                  Tail(terms))

\* C5: a query in which a normalized term occurs several times returns the
\* same result list as the query in which each term occurs once.
C5_RepeatedTermCountsOnce ==
    pc = "searched" =>
        results = SearchTerms(Distinct(<<>>, QueryTerms(query)),
                              inverted_index, page_ranks).results

PairwiseDistinct(terms) ==
    \A i, j \in 1..Len(terms) : i # j => terms[i] # terms[j]

RECURSIVE PostingCount(_, _)
PostingCount(T, d) ==
    IF T = {} THEN 0
    ELSE LET t == CHOOSE x \in T : TRUE
         IN  Occ(inverted_index[t], d) + PostingCount(T \ {t}, d)

Total(d) ==
    LET present == Range(QueryTerms(query)) \cap DOMAIN inverted_index
        r == Get(page_ranks, d)
    IN  Frac(r.num * PostingCount(present, d), r.den)

\* C6: for a query of pairwise distinct terms the result holds exactly the
\* documents whose total is > 0, each once, the total being the document's
\* rank (0 if it has none) times the number of its postings under the query
\* terms present in the index.
C6_TotalsForDistinctTerms ==
    (pc = "searched" /\ PairwiseDistinct(QueryTerms(query))) =>
        LET hits == {d \in Nodes : FLess(Zero, Total(d))}
        IN  /\ {results[i].page : i \in 1..Len(results)} = hits
            /\ Len(results) = Cardinality(hits)
            /\ \A i \in 1..Len(results) : results[i].rank = Total(results[i].page)

C6_Witness ==
    /\ pc = "searched"
    /\ page_contents = [n \in Nodes |->
          CASE n = "a.html" -> <<"a", " ", "E'">>
            [] n = "b.html" -> <<"a">>
            [] OTHER -> <<"A", " ", "a", " ", "e'">>]
    /\ DOMAIN page_ranks = {"a.html", "b.html"}
    /\ page_ranks["a.html"] = Frac(6, 10)
    /\ page_ranks["b.html"] = Frac(3, 10)
    /\ query = <<"a", " ", "E'">>
    /\ results = << [page |-> "a.html", rank |-> Frac(12, 10)],
                    [page |-> "b.html", rank |-> Frac(3, 10)] >>

RECURSIVE FlatPostings(_)
FlatPostings(terms) ==
    IF terms = <<>> THEN <<>>
    ELSE (IF Head(terms) \in DOMAIN inverted_index
             THEN inverted_index[Head(terms)] ELSE <<>>)
         \o FlatPostings(Tail(terms))

FirstPos(d) ==
    LET flat == FlatPostings(QueryTerms(query))
    IN  CHOOSE i \in 1..Len(flat) :
            flat[i] = d /\ \A j \in 1..(i - 1) : flat[j] # d

\* C7: the results are in descending order of score, and results of equal
\* score are in the order in which their documents were first accumulated.
C7_SortedDescStable ==
    pc = "searched" =>
        \A i, j \in 1..Len(results) :
            i < j =>
                /\ ~FLess(results[i].rank, results[j].rank)
                /\ results[i].rank = results[j].rank =>
                      FirstPos(results[i].page) < FirstPos(results[j].page)

C7_Witness ==
    /\ pc = "searched"
    /\ query = <<"E'", " ", "a">>
    /\ results = << [page |-> "c.html", rank |-> Frac(9, 5)],
                    [page |-> "b.html", rank |-> Frac(3, 5)],
                    [page |-> "a.html", rank |-> Frac(3, 5)] >>

\* C8: every division of the rank computation has a divisor >= 1 and the
\* run never ends in an error.
C8_NoDivisionByZero ==
    /\ pc # "error"
    /\ \A k \in divisors : k >= 1

C8_Witness ==
    /\ pc = "ranked" /\ iter >= 1
    /\ all_links = {}
    /\ LinksOf(pages) # {}
    /\ num_pages \in divisors

\* C9: search leaves the inverted index and the rank table unchanged, and
\* an iteration of calculate_page_rank leaves pages and all_links unchanged.
C9_InputsUnchanged ==
    [][ /\ pc = "indexed" =>
              (inverted_index' = inverted_index /\ page_ranks' = page_ranks)
        /\ pc = "ranked" => (pages' = pages /\ all_links' = all_links) ]_vars

C9_Witness ==
    /\ pc = "searched"
    /\ \E i \in 1..Len(QueryTerms(query)) :
          QueryTerms(query)[i] \notin DOMAIN inverted_index
    /\ \E i \in 1..Len(QueryTerms(query)) :
          /\ QueryTerms(query)[i] \in DOMAIN inverted_index
          /\ \E d \in Range(inverted_index[QueryTerms(query)[i]]) :
                d \notin DOMAIN page_ranks
    /\ results # <<>>

\* C10: when all_links contains every link target of pages, the key set of
\* the table after an iteration is a subset of the key set before it.
C10_KeysNeverGrow ==
    [][ (pc = "ranked" /\ LinksCovered) =>
            DOMAIN page_ranks' \subseteq DOMAIN page_ranks ]_vars

C10_Witness ==
    /\ pc = "ranked" /\ LinksCovered /\ iter = 2
    /\ DOMAIN page_ranks # DOMAIN prev_ranks
    /\ DOMAIN prev_ranks # DOMAIN init_ranks
    /\ page_ranks # EmptyDict

====
